---- MODULE Spec2Model ----
(***************************************************************************)
(* Tracking reconciliation of the Nikki back-office bot (src/bot.py).      *)
(*                                                                         *)
(* Strings whose content the code inspects (tracking IDs, order names,     *)
(* statuses) are sequences of one-character strings, so that strip(),      *)
(* lstrip('#') and upper() are computed rather than assumed.               *)
(***************************************************************************)
EXTENDS Integers, Sequences, FiniteSets, TLC

VARIABLES
    sheet,       \* rows of the published CSV feed (environment)
    ledgerFile,  \* lines of processed_tracking_ids.txt, oldest first
    pc,          \* "idle" | "replied": position of the checktracking handler
    outcome,     \* how the last pass ended: "none" | "ok" | "fetch_failed" | "aborted"
    new_ids,     \* local new_ids of the pass
    actions,     \* local actions of the pass
    reply,       \* last message sent to the operator by the pass
    events,      \* upstream calls and pauses of the pass, in order (history)
    prevLedger,  \* ledgerFile when the pass started (history)
    fulfilled,   \* tracking IDs sent in a fulfillment call by an earlier pass (history)
    sheetRuns,   \* passes that ended "ok" since the sheet was last edited (history)
    passes,      \* number of passes started
    shopOrder,   \* the order the delivery commands work on: note and shipping-line title
    hist,        \* the last delivery command and what the order held before it (history)
    cmds,        \* number of delivery commands handled
    alerts,      \* inventory_alerts.json: SKU -> threshold
    probe,       \* last call of a read-only operation: its input and its result
    tickets,     \* support_tickets.json: the tickets in insertion order
    tasks        \* handler invocations in the event loop: command, position, locals

reconVars == <<sheet, ledgerFile, pc, outcome, new_ids, actions, reply, events,
               prevLedger, fulfilled, sheetRuns, passes>>
deliveryVars == <<shopOrder, hist, cmds>>
toolVars == <<alerts, probe>>

loopVars == <<tickets, tasks>>
vars == <<reconVars, deliveryVars, toolVars, loopVars>>

\* Value of the variables of a subsystem that a specification does not run.
Off == "off"
DeliveryOff == shopOrder = Off /\ hist = Off /\ cmds = 0
ToolsOff == alerts = Off /\ probe = Off
LoopOff == tickets = Off /\ tasks = Off

----------------------------------------------------------------------------
(* Bounds *)

MaxFeed == 2      \* rows in the feed
MaxPasses == 2    \* reconciliation passes in one behaviour

----------------------------------------------------------------------------
(* String primitives *)

WS == {" ", "\t", "\n"}

RECURSIVE LStripSet(_, _)
LStripSet(s, chars) ==
    IF s # <<>> /\ Head(s) \in chars THEN LStripSet(Tail(s), chars) ELSE s

RECURSIVE RStripSet(_, _)
RStripSet(s, chars) ==
    IF s # <<>> /\ s[Len(s)] \in chars
    THEN RStripSet(SubSeq(s, 1, Len(s) - 1), chars)
    ELSE s

\* str.strip()
Strip(s) == RStripSet(LStripSet(s, WS), WS)

UpperChar(c) ==
    CASE c = "p" -> "P" [] c = "a" -> "A" [] c = "c" -> "C"
      [] c = "k" -> "K" [] c = "e" -> "E" [] c = "d" -> "D"
      [] c = "o" -> "O"
      [] OTHER -> c

\* str.upper()
Upper(s) == [i \in DOMAIN s |-> UpperChar(s[i])]

----------------------------------------------------------------------------
(* The feed, the ledger file and the Order Store as the code sees them *)

CARRIER == "India Post Domestic"
PACKED == <<"P", "A", "C", "K", "E", "D">>

\* Tracking IDs a feed row can carry; <<>> is an empty or missing column.
TidA == <<"A">>
TidB == <<"B">>
TidSpA == <<" ", "A">>

\* One row of csv.DictReader: columns TRACKING ID, SHOPIFY ORDER ID, STATUS.
Row(t, o, s) == [tid |-> t, order |-> o, status |-> s]

Rows ==
    { Row(TidA,   <<"#", "1">>, PACKED),
      Row(TidB,   <<"#", "1">>, <<"O", "K">>),
      Row(TidA,   <<>>,         PACKED),
      Row(TidB,   <<"#", "9">>, PACKED),
      Row(TidSpA, <<"1">>,      <<"p", "a", "c", "k", "e", "d", " ">>),
      Row(<<>>,   <<"#", "1">>, PACKED),
      Row(TidB,   <<"#", "2">>, PACKED),
      Row(TidA,   <<"#", "2">>, <<>>) }

RECURSIVE SeqsUpTo(_, _)
SeqsUpTo(S, n) ==
    IF n = 0 THEN {<<>>}
    ELSE LET shorter == SeqsUpTo(S, n - 1)
         IN  shorter \cup {Append(q, x) : q \in {r \in shorter : Len(r) = n - 1}, x \in S}

Feeds == SeqsUpTo(Rows, MaxFeed)

InitLedgers == {<<>>, <<TidB>>}

\* Line items of the orders the store holds. A missing sku is "", a missing
\* variant_id or location_id is 0.
Item(i, sku, v, fq, svc, loc) ==
    [id |-> i, sku |-> sku, variant_id |-> v, quantity |-> 1,
     fulfillable_quantity |-> fq, fulfillment_service |-> svc, location_id |-> loc]

NoOrder == [id |-> 0, line_items |-> <<>>]

\* Orders by display name without the leading '#'.
Store ==
    (<<"1">> :> [id |-> 101,
                 line_items |-> << Item(1, "A", 11, 1, "manual", 7),
                                   Item(2, "B", 12, 1, "manual", 7) >>])
    @@
    (<<"2">> :> [id |-> 102,
                 line_items |-> << Item(3, "", 13, 0, "manual", 7),
                                   Item(4, "B", 14, 1, "other", 7) >>])

\* inventoryQuantity of the first variant of the product found for a SKU.
Stock == ("A" :> 0) @@ ("B" :> 5)

\* An event "userErrors" is the answer of a set-quantity call that set nothing.
\* Ways the upstream can answer the calls made for one record. "none": every
\* call succeeds. "*_http": raise_for_status() raises on that call.
\* "*_errors" / "ids_none": the call returns without the data.
Faults ==
    {"none", "lookup_http", "fulfil_http", "inv_http", "inv_errors",
     "ids_http", "ids_none", "set_http", "set_errors", "carrier_http"}

FaultOp(f) ==
    CASE f = "lookup_http" -> "lookup"
      [] f = "fulfil_http" -> "fulfil"
      [] f \in {"inv_http", "inv_errors"} -> "inventory"
      [] f \in {"ids_http", "ids_none"} -> "getids"
      [] f \in {"set_http", "set_errors"} -> "setqty"
      [] f = "carrier_http" -> "carrier"
      [] OTHER -> "none"

\* An upstream call or a pause, annotated with the feed row it was made for.
Ev(op, row, tid, order, sku, variant, carrier) ==
    [op |-> op, row |-> row, tid |-> tid, order |-> order, sku |-> sku,
     variant |-> variant, carrier |-> carrier]

\* A line of the action list, annotated with the feed row it was made for.
Line(kind, row, tid, order_name, sku, qty) ==
    [kind |-> kind, row |-> row, tid |-> tid, order_name |-> order_name,
     sku |-> sku, qty |-> qty]

----------------------------------------------------------------------------
(* Ledger *)

get_processed_ids(file) == {Strip(file[i]) : i \in DOMAIN file}

save_processed_ids(file, ids) == file \o ids

----------------------------------------------------------------------------
(* Order Store calls. Each returns the events it caused, the exception it  *)
(* raised ("" for none) and its result. `up` is the upstream's behaviour   *)
(* while the record of feed row `row` is handled.                          *)

get_shopify_order_by_name(order_name, row, up) ==
    LET name == LStripSet(order_name, {"#"})
    IN  [events |-> <<Ev("lookup", row, <<>>, 0, "", 0, "")>>,
         exc    |-> IF up = "lookup_http" THEN "HTTPError" ELSE "",
         order  |-> IF up # "lookup_http" /\ name \in DOMAIN Store
                    THEN Store[name] ELSE NoOrder]

set_shipping_carrier(order_id, row, up) ==
    [events |-> <<Ev("carrier", row, <<>>, order_id, "", 0, CARRIER)>>,
     exc    |-> IF up = "carrier_http" THEN "HTTPError" ELSE ""]

mark_variant_out_of_stock(variant_id, row, up) ==
    LET ids == Ev("getids", row, <<>>, 0, "", variant_id, "")
        set == Ev("setqty", row, <<>>, 0, "", variant_id, "")
    IN  CASE up = "ids_http"   -> [events |-> <<ids>>, exc |-> "HTTPError", ok |-> FALSE]
          [] up = "ids_none"   -> [events |-> <<ids>>, exc |-> "", ok |-> FALSE]
          [] up = "set_http"   -> [events |-> <<ids, set>>, exc |-> "HTTPError", ok |-> FALSE]
          [] up = "set_errors" ->
               [events |-> <<ids, set, Ev("userErrors", row, <<>>, 0, "", variant_id, "")>>,
                exc |-> "", ok |-> FALSE]
          [] OTHER             -> [events |-> <<ids, set>>, exc |-> "", ok |-> TRUE]

\* inventory: [none |-> TRUE] is Python's None.
get_variant_inventory(sku, row, up) ==
    LET q == Ev("inventory", row, <<>>, 0, sku, 0, "")
    IN  CASE up = "inv_http" ->
               [events |-> <<q>>, exc |-> "HTTPError", inventory |-> [none |-> TRUE, qty |-> 0]]
          [] up = "inv_errors" \/ sku \notin DOMAIN Stock ->
               [events |-> <<q>>, exc |-> "", inventory |-> [none |-> TRUE, qty |-> 0]]
          [] OTHER ->
               [events |-> <<q>>, exc |-> "", inventory |-> [none |-> FALSE, qty |-> Stock[sku]]]

\* location_id of the first fulfillable line item with manual fulfillment, 0 if none.
RECURSIVE FirstLocation(_)
FirstLocation(items) ==
    IF items = <<>> THEN 0
    ELSE IF Head(items).fulfillable_quantity > 0
            /\ Head(items).fulfillment_service = "manual"
         THEN Head(items).location_id
         ELSE FirstLocation(Tail(items))

add_tracking_to_order(order, tracking_id, row, up) ==
    LET location_id == FirstLocation(order.line_items)
    IN  IF location_id = 0
        THEN [events |-> <<>>, exc |-> "No valid location_id found for fulfillment."]
        ELSE [events |-> <<Ev("fulfil", row, tracking_id, order.id, "", 0, CARRIER)>>,
              exc    |-> IF up = "fulfil_http" THEN "HTTPError" ELSE ""]

----------------------------------------------------------------------------
(* checktracking_command: the loop over the feed rows. st holds the locals *)
(* new_ids and actions, the events so far and the exception that left the  *)
(* try block ("" while none has).                                          *)

EmptyPass == [new_ids |-> <<>>, actions |-> <<>>, events |-> <<>>, exc |-> ""]

AddLine(st, line) == [st EXCEPT !.actions = Append(@, line)]
AddEvents(st, evs) == [st EXCEPT !.events = @ \o evs]
Raise(st, e) == [st EXCEPT !.exc = e]

\* for item in order.get("line_items", []): ...
RECURSIVE LineItems(_, _, _, _, _)
LineItems(items, row, r, up, st) ==
    IF items = <<>> \/ st.exc # "" THEN st
    ELSE
      LET item == Head(items)
          rest == Tail(items)
      IN  IF item.sku = "" \/ item.variant_id = 0
          THEN LineItems(rest, row, r, up,
                         AddLine(st, Line("missing_sku_or_variant", row, r.tid, r.order, "", 0)))
          ELSE
            LET inv == get_variant_inventory(item.sku, row, up)
                st1 == AddEvents(st, inv.events)
            IN  IF inv.exc # "" THEN Raise(st1, inv.exc)
                ELSE IF inv.inventory.none
                THEN LineItems(rest, row, r, up,
                               AddLine(st1, Line("could_not_fetch", row, r.tid, r.order, item.sku, 0)))
                ELSE IF inv.inventory.qty = 0
                THEN LET m == mark_variant_out_of_stock(item.variant_id, row, up)
                         st2 == AddEvents(st1, m.events)
                     IN  IF m.exc # "" THEN Raise(st2, m.exc)
                         ELSE LineItems(rest, row, r, up,
                                        AddLine(st2, Line("out_of_stock", row, r.tid, r.order, item.sku, 0)))
                ELSE LineItems(rest, row, r, up,
                               AddLine(st1, Line("in_stock", row, r.tid, r.order, item.sku,
                                                 inv.inventory.qty)))

\* if not tracking_id or tracking_id in processed: continue
Skipped(r, processed) == r.tid = <<>> \/ r.tid \in processed

\* status and status.strip().upper() == "PACKED"
IsPacked(status) == status # <<>> /\ Upper(Strip(status)) = PACKED

\* The line items, then the carrier, then the pause.
StockBranch(order, row, r, up, st) ==
    LET st1 == LineItems(order.line_items, row, r, up, st)
    IN  IF st1.exc # "" THEN st1
        ELSE LET c   == set_shipping_carrier(order.id, row, up)
                 st2 == AddEvents(st1, c.events)
             IN  IF c.exc # "" THEN Raise(st2, c.exc)
                 ELSE AddEvents(AddLine(st2, Line("carrier_set", row, r.tid, r.order, "", 0)),
                                <<Ev("sleep", row, <<>>, 0, "", 0, "")>>)

\* The PACKED branch without its `continue`.
PackedBranch_NoContinue(order, row, r, up, st) ==
    LET f   == add_tracking_to_order(order, r.tid, row, up)
        st1 == AddEvents(st, f.events)
        st2 == IF f.exc = ""
               THEN AddLine(st1, Line("tracking_set", row, r.tid, r.order, "", 0))
               ELSE AddLine(st1, Line("tracking_failed", row, r.tid, r.order, "", 0))
    IN  StockBranch(order, row, r, up, st2)

\* The PACKED branch: the exception of add_tracking_to_order is caught here.
PackedBranch(order, row, r, up, st) ==
    LET f   == add_tracking_to_order(order, r.tid, row, up)
        st1 == AddEvents(st, f.events)
    IN  IF f.exc = ""
        THEN AddLine(st1, Line("tracking_set", row, r.tid, r.order, "", 0))
        ELSE AddLine(st1, Line("tracking_failed", row, r.tid, r.order, "", 0))

\* One iteration of `for row in reader`, for feed row number `row`.
HandleRecord(r, row, processed, up, st) ==
    IF Skipped(r, processed) THEN st
    ELSE
      LET st1 == [st EXCEPT !.new_ids = Append(@, r.tid)]
      IN  IF r.order = <<>>
          THEN AddLine(st1, Line("no_order_id", row, r.tid, r.order, "", 0))
          ELSE
            LET lk  == get_shopify_order_by_name(r.order, row, up)
                st2 == AddEvents(st1, lk.events)
            IN  IF lk.exc # "" THEN Raise(st2, lk.exc)
                ELSE IF lk.order = NoOrder
                THEN AddLine(st2, Line("order_not_found", row, r.tid, r.order, "", 0))
                ELSE IF IsPacked(r.status)
                THEN PackedBranch(lk.order, row, r, up, st2)
                ELSE StockBranch(lk.order, row, r, up, st2)

\* The rows from `row` on; an exception leaves the loop.
RECURSIVE Loop(_, _, _, _, _)
Loop(feed, row, processed, ups, st) ==
    IF row > Len(feed) \/ st.exc # "" THEN st
    ELSE Loop(feed, row + 1, processed, ups,
              HandleRecord(feed[row], row, processed, ups[row], st))

\* The upstream behaviours that can make a difference to a record: a fault
\* of a call the record never makes is no fault.
FaultsOf(r, processed) ==
    LET calm == HandleRecord(r, 1, processed, "none", EmptyPass)
    IN  {f \in Faults :
            f = "none" \/ \E i \in DOMAIN calm.events : calm.events[i].op = FaultOp(f)}

RECURSIVE Upstreams(_, _)
Upstreams(feed, processed) ==
    IF feed = <<>> THEN {<<>>}
    ELSE {<<f>> \o u : f \in FaultsOf(Head(feed), processed),
                       u \in Upstreams(Tail(feed), processed)}

----------------------------------------------------------------------------
(* Replies to the operator *)

ReplyNone == [kind |-> "none", lines |-> <<>>, error |-> ""]
ReplyActions(lines) == [kind |-> "actions", lines |-> lines, error |-> ""]
ReplyNothingNew == [kind |-> "nothing_new", lines |-> <<>>, error |-> ""]
ReplyError(e) == [kind |-> "error", lines |-> <<>>, error |-> e]

----------------------------------------------------------------------------
(* Actions *)

Init ==
    /\ LoopOff
    /\ sheet \in Feeds
    /\ ledgerFile \in InitLedgers
    /\ pc = "idle"
    /\ outcome = "none"
    /\ new_ids = <<>>
    /\ actions = <<>>
    /\ reply = ReplyNone
    /\ events = <<>>
    /\ prevLedger = ledgerFile
    /\ fulfilled = {}
    /\ sheetRuns = 0
    /\ passes = 0
    /\ DeliveryOff
    /\ ToolsOff

\* The fetch without raise_for_status(): an error page parses to no rows.
FetchFeed_NoRaise(published, ok) ==
    [exc |-> "", rows |-> IF ok THEN published ELSE <<>>]

\* requests.get(CSV_URL) and raise_for_status(): the rows of the sheet, or
\* the exception of a transport error or a non-success status.
FetchFeed(published, ok) ==
    IF ok THEN [exc |-> "", rows |-> published]
    ELSE [exc |-> "HTTPError", rows |-> <<>>]

\* The try block up to save_processed_ids.
TryBlock(file, fetch, ups) ==
    IF fetch.exc # "" THEN Raise(EmptyPass, fetch.exc)
    ELSE Loop(fetch.rows, 1, get_processed_ids(file), ups, EmptyPass)

\* save_processed_ids(new_ids) is reached only when nothing was raised.
Commit(file, st) ==
    IF st.exc = "" THEN save_processed_ids(file, st.new_ids) ELSE file

\* The message that ends the handler.
FinalReply(st) ==
    IF st.exc # "" THEN ReplyError(st.exc)
    ELSE IF st.actions # <<>> THEN ReplyActions(st.actions)
    ELSE ReplyNothingNew

\* One reconciliation pass, from the ledger read to the final reply.
checktracking_command ==
    /\ pc = "idle"
    /\ passes < MaxPasses
    /\ \E ok \in BOOLEAN :
         LET fetch == FetchFeed(sheet, ok)
         IN  \E ups \in Upstreams(fetch.rows, get_processed_ids(ledgerFile)) :
               LET st == TryBlock(ledgerFile, fetch, ups)
               IN  /\ new_ids' = st.new_ids
                   /\ actions' = st.actions
                   /\ events' = st.events
                   /\ ledgerFile' = Commit(ledgerFile, st)
                   /\ reply' = FinalReply(st)
                   /\ outcome' = IF ~ok THEN "fetch_failed"
                                 ELSE IF st.exc = "" THEN "ok" ELSE "aborted"
                   /\ sheetRuns' = IF ok /\ st.exc = "" THEN sheetRuns + 1 ELSE sheetRuns
    /\ pc' = "replied"
    /\ passes' = passes + 1
    /\ prevLedger' = ledgerFile
    /\ UNCHANGED <<sheet, fulfilled, deliveryVars, toolVars, loopVars>>

FulfilledIn(evs) == {evs[i].tid : i \in {j \in DOMAIN evs : evs[j].op = "fulfil"}}

\* The handler returns: its locals are gone, the history is folded.
Return ==
    /\ pc = "replied"
    /\ pc' = "idle"
    /\ fulfilled' = fulfilled \cup FulfilledIn(events)
    /\ new_ids' = <<>>
    /\ actions' = <<>>
    /\ events' = <<>>
    /\ reply' = ReplyNone
    /\ outcome' = "none"
    /\ prevLedger' = ledgerFile
    /\ UNCHANGED <<sheet, ledgerFile, sheetRuns, passes, deliveryVars, toolVars, loopVars>>

\* A row is appended to the published sheet between two passes.
EditSheet ==
    /\ pc = "idle"
    /\ Len(sheet) < MaxFeed
    /\ \E r \in Rows : sheet' = Append(sheet, r)
    /\ sheetRuns' = 0
    /\ UNCHANGED <<ledgerFile, pc, outcome, new_ids, actions, reply, events,
                   prevLedger, fulfilled, passes, deliveryVars, toolVars, loopVars>>

Next == checktracking_command \/ Return \/ EditSheet

Spec == Init /\ [][Next]_vars

----------------------------------------------------------------------------
(* Vocabulary of the properties *)

Range(q) == {q[i] : i \in DOMAIN q}

PassEnded == pc = "replied"
Fetched == PassEnded /\ outcome \in {"ok", "aborted"}

\* The ledger as the pass read it.
ProcessedBefore == get_processed_ids(prevLedger)

\* Feed rows the ledger did not filter out.
NewRows == {i \in DOMAIN sheet : ~Skipped(sheet[i], ProcessedBefore)}

\* Feed rows whose handling began.
StartedRows ==
    {i \in NewRows : (\E k \in DOMAIN events : events[k].row = i)
                     \/ (\E k \in DOMAIN actions : actions[k].row = i)}

LinesOf(lines, i) == {k \in DOMAIN lines : lines[k].row = i}
EventsOf(i, op) == {k \in DOMAIN events : events[k].row = i /\ events[k].op = op}

StoreOps == {"lookup", "fulfil", "inventory", "getids", "setqty", "carrier"}
StoreCalls == {k \in DOMAIN events : events[k].op \in StoreOps}

----------------------------------------------------------------------------
(* C1: idempotency - a pass that ends normally on a feed on which an       *)
(* earlier pass already ended normally, the sheet unchanged in between,    *)
(* records no action and makes no Order Store call.                        *)
C1_SecondRunIsEmpty ==
    (PassEnded /\ outcome = "ok" /\ sheetRuns >= 2)
        => (actions = <<>> /\ StoreCalls = {})

(* C2: at most one fulfillment-creation call is ever made for a tracking   *)
(* ID: none for an ID an earlier pass already sent, and no two in one pass. *)
C2_AtMostOneFulfillment ==
    /\ \A k \in DOMAIN events :
          events[k].op = "fulfil" => events[k].tid \notin fulfilled
    /\ \A j, k \in DOMAIN events :
          (events[j].op = "fulfil" /\ events[k].op = "fulfil"
             /\ events[j].tid = events[k].tid) => j = k

(* C3: failure isolation - once the handling of a record has begun, every  *)
(* new record after it in the feed is handled too, whatever the upstream   *)
(* answered for the earlier one.                                           *)
C3_LaterRecordsHandled ==
    Fetched =>
        \A i \in StartedRows, j \in NewRows : i < j => LinesOf(actions, j) # {}

(* C4: unconditional commit - after a pass that fetched the feed, every    *)
(* tracking ID the pass saw as new is a line of the ledger file.           *)
C4_NewIdsCommitted ==
    Fetched => \A k \in DOMAIN new_ids : new_ids[k] \in Range(ledgerFile)

(* C5: a pass whose feed fetch failed handled no record, made no upstream  *)
(* call, left the ledger file as it was and told the operator the error.   *)
C5_FetchFailureAborts ==
    (PassEnded /\ outcome = "fetch_failed")
        => /\ new_ids = <<>>
           /\ actions = <<>>
           /\ events = <<>>
           /\ ledgerFile = prevLedger
           /\ reply = ReplyError("HTTPError")

\* A failed fetch of a sheet that holds rows the ledger does not filter.
C5_Witness ==
    /\ PassEnded
    /\ outcome = "fetch_failed"
    /\ NewRows # {}
    /\ prevLedger # <<>>

(* C6: every record whose handling began has at least one line in the     *)
(* action list sent to the operator at the end of the pass.                *)
C6_EveryRecordReported ==
    Fetched => \A i \in StartedRows : LinesOf(reply.lines, i) # {}

(* C7: within one pass a tracking ID is handled once: no two handled rows  *)
(* of the feed carry the same tracking ID.                                 *)
C7_HandledOncePerPass ==
    PassEnded =>
        \A i, j \in StartedRows : sheet[i].tid = sheet[j].tid => i = j

(* C8: a completed pass keeps the old ledger lines in place and appends    *)
(* exactly one line per distinct new tracking ID, none of them a line the  *)
(* ledger already held.                                                    *)
C8_LedgerGrowsByDistinctNew ==
    (PassEnded /\ outcome = "ok") =>
        LET added == SubSeq(ledgerFile, Len(prevLedger) + 1, Len(ledgerFile))
        IN  /\ Len(ledgerFile) >= Len(prevLedger)
            /\ SubSeq(ledgerFile, 1, Len(prevLedger)) = prevLedger
            /\ Len(added) = Cardinality({sheet[i].tid : i \in NewRows})
            /\ Range(added) = {sheet[i].tid : i \in NewRows}
            /\ Range(added) \cap Range(prevLedger) = {}

\* Rows that reached the PACKED branch: new, order found, and the status,
\* stripped and upper-cased, is PACKED.
PackedRows ==
    {i \in StartedRows :
        /\ LinesOf(actions, i) # {}
        /\ LStripSet(sheet[i].order, {"#"}) \in DOMAIN Store
        /\ Upper(Strip(sheet[i].status)) = PACKED}

OrderOfRow(i) == Store[LStripSet(sheet[i].order, {"#"})]

PackedRowFrame(i) ==
    /\ \A k \in EventsOf(i, "fulfil") :
          /\ events[k].tid = sheet[i].tid
          /\ events[k].carrier = "India Post Domestic"
          /\ events[k].order = OrderOfRow(i).id
    /\ Cardinality(LinesOf(actions, i)) = 1
    /\ \A k \in LinesOf(actions, i) :
          actions[k].kind \in {"tracking_set", "tracking_failed"}
    /\ \A op \in {"inventory", "getids", "setqty", "carrier"} : EventsOf(i, op) = {}

(* C9 as claimed: every record in the PACKED branch makes exactly one      *)
(* fulfillment call with its tracking ID and the fixed carrier, records    *)
(* one outcome and makes no inventory, set-quantity or carrier call.       *)
C9_PackedExactlyOneCall ==
    PassEnded =>
        \A i \in PackedRows :
            Cardinality(EventsOf(i, "fulfil")) = 1 /\ PackedRowFrame(i)

(* C9 as amended: the fulfillment call is made exactly once when the       *)
(* first fulfillable, manually fulfilled line item of the order has a      *)
(* location id, and not at all otherwise; the rest as claimed.             *)
C9_PackedBranch ==
    PassEnded =>
        \A i \in PackedRows :
            /\ Cardinality(EventsOf(i, "fulfil")) =
                  (IF FirstLocation(OrderOfRow(i).line_items) # 0 THEN 1 ELSE 0)
            /\ PackedRowFrame(i)

\* One pass with a PACKED record whose fulfillment call was rejected and a
\* PACKED record whose order has no location to fulfill from.
C9_Witness ==
    /\ PassEnded
    /\ \E i \in PackedRows :
          /\ EventsOf(i, "fulfil") # {}
          /\ \E k \in LinesOf(actions, i) : actions[k].kind = "tracking_failed"
    /\ \E i \in PackedRows : EventsOf(i, "fulfil") = {}

(* C10: a new record without an order name gets the line "no order ID      *)
(* found", causes no Order Store call, and its tracking ID is a line of    *)
(* the ledger file after the pass.                                         *)
C10_NoOrderName ==
    PassEnded =>
        \A i \in StartedRows :
            sheet[i].order = <<>> =>
                /\ \E k \in LinesOf(actions, i) : actions[k].kind = "no_order_id"
                /\ \A op \in StoreOps : EventsOf(i, op) = {}
                /\ sheet[i].tid \in Range(ledgerFile)

\* A line item that add_tracking_to_order can fulfill from.
Fulfillable(item) ==
    /\ item.fulfillable_quantity > 0
    /\ item.fulfillment_service = "manual"
    /\ item.location_id # 0

(* C11: a PACKED record whose order has no fulfillable, manually fulfilled *)
(* line item with a location id sends no fulfillment request, gets one     *)
(* failure line, is followed by the handling of the next new record, and   *)
(* its tracking ID is a line of the ledger file after the pass.            *)
C11_NoLocationIsolated ==
    PassEnded =>
        \A i \in PackedRows :
            (\A k \in DOMAIN OrderOfRow(i).line_items :
                 ~Fulfillable(OrderOfRow(i).line_items[k]))
            => /\ EventsOf(i, "fulfil") = {}
               /\ Cardinality(LinesOf(actions, i)) = 1
               /\ \A k \in LinesOf(actions, i) : actions[k].kind = "tracking_failed"
               /\ \A j \in NewRows : j > i => j \in StartedRows
               /\ sheet[i].tid \in Range(ledgerFile)

\* Rows that reached the line-item branch: new, order found, status not PACKED.
StockRows ==
    {i \in StartedRows :
        /\ LStripSet(sheet[i].order, {"#"}) \in DOMAIN Store
        /\ Upper(Strip(sheet[i].status)) # PACKED
        /\ \/ LinesOf(actions, i) # {}
           \/ \E k \in DOMAIN events : events[k].row = i /\ events[k].op # "lookup"}

ItemsOfRow(i) == OrderOfRow(i).line_items
Complete(item) == item.sku # "" /\ item.variant_id # 0

ItemLines(i, item) == {k \in LinesOf(actions, i) : actions[k].sku = item.sku}
ItemEvents(i, item, op) ==
    {k \in EventsOf(i, op) :
        IF op = "inventory" THEN events[k].sku = item.sku
        ELSE events[k].variant = item.variant_id}

(* C12: in the line-item branch every item with SKU and variant id gets    *)
(* exactly one line, "out of stock" together with one set-quantity call    *)
(* iff its inventory is exactly zero, otherwise "in stock" with the        *)
(* quantity and no inventory mutation; every item without SKU or variant   *)
(* id gets the line "missing SKU or variant ID" and no inventory call.     *)
C12_ItemOutcomes ==
    PassEnded =>
        \A i \in StockRows :
            /\ \A n \in DOMAIN ItemsOfRow(i) :
                  LET item == ItemsOfRow(i)[n]
                  IN  Complete(item) =>
                        /\ Cardinality(ItemLines(i, item)) = 1
                        /\ \A k \in ItemLines(i, item) :
                              IF item.sku \in DOMAIN Stock /\ Stock[item.sku] = 0
                              THEN /\ actions[k].kind = "out_of_stock"
                                   /\ Cardinality(ItemEvents(i, item, "setqty")) = 1
                              ELSE /\ actions[k].kind = "in_stock"
                                   /\ item.sku \in DOMAIN Stock
                                   /\ actions[k].qty = Stock[item.sku]
                                   /\ ItemEvents(i, item, "getids") = {}
                                   /\ ItemEvents(i, item, "setqty") = {}
            /\ Cardinality({k \in LinesOf(actions, i) :
                               actions[k].kind = "missing_sku_or_variant"})
                  = Cardinality({n \in DOMAIN ItemsOfRow(i) : ~Complete(ItemsOfRow(i)[n])})
            /\ \A k \in EventsOf(i, "inventory") : events[k].sku # ""

(* C13: in the line-item branch the carrier-update call is made exactly    *)
(* once, with the fixed carrier, after every inventory call of the record. *)
C13_CarrierOnceAfterItems ==
    PassEnded =>
        \A i \in StockRows :
            /\ Cardinality(EventsOf(i, "carrier")) = 1
            /\ \A c \in EventsOf(i, "carrier") :
                  /\ events[c].carrier = "India Post Domestic"
                  /\ events[c].order = OrderOfRow(i).id
                  /\ \A op \in {"inventory", "getids", "setqty"} :
                        \A k \in EventsOf(i, op) : k < c

-----------------------------------------------------------------------------
(* Delivery history: the order note and the shipping-line title.           *)
(* A text is a sequence of atoms: words, and the separators the code       *)
(* searches for (" ", "\n", ":").                                          *)

MaxCmds == 3      \* delivery commands in one behaviour

\* pat in s: the least position where pat occurs in s, 0 if none.
Find(s, pat) ==
    LET hits == {i \in 1..(Len(s) - Len(pat) + 1) : SubSeq(s, i, i + Len(pat) - 1) = pat}
    IN  IF hits = {} THEN 0 ELSE CHOOSE i \in hits : \A j \in hits : i <= j

Contains(s, pat) == Find(s, pat) # 0

\* str.split(sep)
RECURSIVE Split(_, _)
Split(s, sep) ==
    LET i == Find(s, sep)
    IN  IF i = 0 THEN <<s>>
        ELSE <<SubSeq(s, 1, i - 1)>> \o Split(SubSeq(s, i + Len(sep), Len(s)), sep)

\* str.split(sep, 1) of a text that contains sep
SplitOnce(s, sep) ==
    LET i == Find(s, sep)
    IN  <<SubSeq(s, 1, i - 1), SubSeq(s, i + Len(sep), Len(s))>>

\* " ".join(args)
RECURSIVE Join(_)
Join(args) ==
    IF args = <<>> THEN <<>>
    ELSE IF Len(args) = 1 THEN <<args[1]>>
    ELSE <<args[1], " ">> \o Join(Tail(args))

Marker(name) == <<"---", " ">> \o name \o <<" ", "---">>

RESCHEDULE_INFO == Join(<<"RESCHEDULE", "INFO">>)
DELIVERY_PARTNER_UPDATE == Join(<<"DELIVERY", "PARTNER", "UPDATE">>)
ORDER_ON_HOLD == Join(<<"ORDER", "ON", "HOLD">>)
DELIVERY_SCHEDULED == Join(<<"DELIVERY", "SCHEDULED">>)
CUSTOMER_NOTIFICATION == Join(<<"CUSTOMER", "NOTIFICATION">>)
RESCHEDULED_TO == Join(<<"Rescheduled", "to">>)

K_NewDeliveryDate == Join(<<"New", "Delivery", "Date">>)
K_Reason == <<"Reason">>
K_DeliveryPartner == Join(<<"Delivery", "Partner">>)
K_RescheduledOn == Join(<<"Rescheduled", "on">>)
K_NewPartner == Join(<<"New", "Partner">>)
K_UpdatedOn == Join(<<"Updated", "on">>)
K_HeldOn == Join(<<"Held", "on">>)
K_Date == <<"Date">>
K_Time == <<"Time">>
K_ScheduledOn == Join(<<"Scheduled", "on">>)
K_Message == <<"Message">>
K_SentOn == Join(<<"Sent", "on">>)

\* strftime('%Y-%m-%d %H:%M:%S') of the clock
Timestamp == <<"2025-01-10", " ", "09", ":", "30", ":", "00">>

\* "\nKey: value"
NoteLine(key, value) == <<"\n">> \o key \o <<":", " ">> \o value

\* note + block if note else block
AppendNote(note, block) == IF note # <<>> THEN note \o block ELSE block

DeliveryOrder(lines, note) == [shipping_lines |-> lines, note |-> note]

\* The default delivery_partner of reschedule_delivery
DEFAULT_PARTNER == Join(<<"India", "Post", "Domestic">>)

RescheduleTitle(partner, date) ==
    partner \o <<" ", "-", " ">> \o RESCHEDULED_TO \o <<" ">> \o date

reschedule_note(new_date, reason, delivery_partner) ==
    <<"\n">> \o Marker(RESCHEDULE_INFO)
        \o NoteLine(K_NewDeliveryDate, new_date)
        \o NoteLine(K_Reason, reason)
        \o NoteLine(K_DeliveryPartner, delivery_partner)
        \o NoteLine(K_RescheduledOn, Timestamp)

reschedule_delivery(o, new_date, reason, delivery_partner) ==
    LET title == RescheduleTitle(delivery_partner, new_date)
    IN  DeliveryOrder(
            IF o.shipping_lines # <<>>
            THEN [o.shipping_lines EXCEPT ![1] = title]
            ELSE <<title>>,
            AppendNote(o.note, reschedule_note(new_date, reason, delivery_partner)))

partner_note(new_partner) ==
    <<"\n">> \o Marker(DELIVERY_PARTNER_UPDATE)
        \o NoteLine(K_NewPartner, new_partner)
        \o NoteLine(K_UpdatedOn, Timestamp)

update_delivery_partner(o, new_partner) ==
    DeliveryOrder(
        IF o.shipping_lines # <<>>
        THEN LET current_title == o.shipping_lines[1]
             IN  IF Contains(current_title, RESCHEDULED_TO)
                 THEN LET date_part == Strip(Split(current_title, RESCHEDULED_TO)[2])
                      IN  [o.shipping_lines EXCEPT ![1] = RescheduleTitle(new_partner, date_part)]
                 ELSE [o.shipping_lines EXCEPT ![1] = new_partner]
        ELSE <<new_partner>>,
        AppendNote(o.note, partner_note(new_partner)))

hold_note(reason) ==
    <<"\n">> \o Marker(ORDER_ON_HOLD)
        \o NoteLine(K_Reason, reason)
        \o NoteLine(K_HeldOn, Timestamp)

schedule_note(date, time) ==
    <<"\n">> \o Marker(DELIVERY_SCHEDULED)
        \o NoteLine(K_Date, date)
        \o NoteLine(K_Time, time)
        \o NoteLine(K_ScheduledOn, Timestamp)

notify_note(message) ==
    <<"\n">> \o Marker(CUSTOMER_NOTIFICATION)
        \o NoteLine(K_Message, message)
        \o NoteLine(K_SentOn, Timestamp)

EmptyEntry == [k \in {} |-> <<>>]

\* entry[key.strip()] = value.strip() for every line with a ":"
RECURSIVE EntryOf(_, _)
EntryOf(lines, entry) ==
    IF lines = <<>> THEN entry
    ELSE LET line == Head(lines)
         IN  IF Contains(line, <<":">>)
             THEN LET kv == SplitOnce(line, <<":">>)
                      key == Strip(kv[1])
                      value == Strip(kv[2])
                  IN  EntryOf(Tail(lines),
                              [k \in DOMAIN entry \cup {key} |->
                                  IF k = key THEN value ELSE entry[k]])
             ELSE EntryOf(Tail(lines), entry)

\* The loop over sections[1:]
RECURSIVE SectionEntries(_)
SectionEntries(sections) ==
    IF sections = <<>> THEN <<>>
    ELSE LET entry == EntryOf(Split(Strip(Head(sections)), <<"\n">>), EmptyEntry)
         IN  (IF DOMAIN entry # {} THEN <<entry>> ELSE <<>>) \o SectionEntries(Tail(sections))

\* One history of get_delivery_status: the sections after each marker line.
NoteHistory(note, name) ==
    IF Contains(note, name)
    THEN SectionEntries(Tail(Split(note, Marker(name))))
    ELSE <<>>

NotSet == Join(<<"Not", "set">>)
Unknown == <<"Unknown">>

get_delivery_status(o) ==
    LET title == IF o.shipping_lines # <<>> THEN o.shipping_lines[1] ELSE Unknown
    IN  [current_partner |-> title,
         delivery_date |->
             IF o.shipping_lines # <<>> /\ Contains(title, RESCHEDULED_TO)
             THEN Strip(Split(title, RESCHEDULED_TO)[2])
             ELSE NotSet,
         reschedule_history |-> NoteHistory(o.note, RESCHEDULE_INFO),
         partner_history |-> NoteHistory(o.note, DELIVERY_PARTNER_UPDATE)]

\* What the operator can type: words joined by single spaces.
Dates == {<<"2025-01-15">>, <<"2025-02-01">>}
Reasons == {Join(<<"customer", "away">>), Join(<<"---", "RESCHEDULE", "INFO", "---">>)}
Partners == {<<"BlueDart">>, Join(<<"Delhivery", "Rescheduled", "to", "Monday">>)}
HoldReasons == {Join(<<"address", "check">>)}
ScheduleDates == Dates \cup {<<"tomorrow">>}
Times == {<<"10", ":", "30">>}
Messages == {Join(<<"on", "its", "way">>)}

\* re.match(r'\d{4}-\d{2}-\d{2}', date) and re.match(r'\d{2}:\d{2}', time)
DateFormatOk(date) == date \in Dates
TimeFormatOk(time) == Len(time) = 3 /\ time[2] = ":"

\* Answers of the Order Store to one command: the lookup and the PUT.
Answers == {"ok", "not_found", "put_failed"}

\* One written block, as the history records it.
Written(variant, fields) == [variant |-> variant, fields |-> fields]

ReconOff ==
    /\ sheet = <<>>
    /\ ledgerFile = <<>>
    /\ pc = Off
    /\ outcome = Off
    /\ new_ids = <<>>
    /\ actions = <<>>
    /\ reply = ReplyNone
    /\ events = <<>>
    /\ prevLedger = <<>>
    /\ fulfilled = {}
    /\ sheetRuns = 0
    /\ passes = 0

InitDelivery ==
    /\ LoopOff
    /\ ReconOff
    /\ ToolsOff
    /\ shopOrder \in {DeliveryOrder(<<>>, <<>>), DeliveryOrder(<<<<"Standard">>>>, <<>>)}
    /\ hist = [log |-> <<>>, prev |-> shopOrder, last |-> "none"]
    /\ cmds = 0

\* The common shape of the five writers: look the order up, PUT the update.
DeliveryCommand(answer, updated, variant, fields) ==
    /\ cmds < MaxCmds
    /\ cmds' = cmds + 1
    /\ IF answer = "ok"
       THEN /\ shopOrder' = updated
            /\ hist' = [log |-> Append(hist.log, Written(variant, fields)),
                        prev |-> shopOrder, last |-> variant]
       ELSE /\ shopOrder' = shopOrder
            /\ hist' = [hist EXCEPT !.prev = shopOrder, !.last = answer]
    /\ UNCHANGED <<reconVars, toolVars, loopVars>>

reschedule_command ==
    \E new_date \in Dates, reason \in Reasons, answer \in Answers :
        DeliveryCommand(answer,
            reschedule_delivery(shopOrder, new_date, reason, DEFAULT_PARTNER),
            "Reschedule",
            (K_NewDeliveryDate :> new_date) @@ (K_Reason :> reason)
                @@ (K_DeliveryPartner :> DEFAULT_PARTNER) @@ (K_RescheduledOn :> Timestamp))

partner_command ==
    \E new_partner \in Partners, answer \in Answers :
        DeliveryCommand(answer,
            update_delivery_partner(shopOrder, new_partner),
            "PartnerUpdate",
            (K_NewPartner :> new_partner) @@ (K_UpdatedOn :> Timestamp))

hold_command ==
    \E reason \in HoldReasons, answer \in Answers :
        DeliveryCommand(answer,
            DeliveryOrder(shopOrder.shipping_lines, AppendNote(shopOrder.note, hold_note(reason))),
            "Hold",
            (K_Reason :> reason) @@ (K_HeldOn :> Timestamp))

schedule_command ==
    \E date \in ScheduleDates, time \in Times, answer \in Answers :
        DeliveryCommand(
            IF answer = "ok" /\ ~(DateFormatOk(date) /\ TimeFormatOk(time))
            THEN "invalid" ELSE answer,
            DeliveryOrder(shopOrder.shipping_lines,
                          AppendNote(shopOrder.note, schedule_note(date, time))),
            "Scheduled",
            (K_Date :> date) @@ (K_Time :> time) @@ (K_ScheduledOn :> Timestamp))

notify_command ==
    \E message \in Messages, answer \in Answers :
        DeliveryCommand(answer,
            DeliveryOrder(shopOrder.shipping_lines, AppendNote(shopOrder.note, notify_note(message))),
            "Notification",
            (K_Message :> message) @@ (K_SentOn :> Timestamp))

NextDelivery ==
    \/ reschedule_command
    \/ partner_command
    \/ hold_command
    \/ schedule_command
    \/ notify_command

SpecDelivery == InitDelivery /\ [][NextDelivery]_vars

Variants == {"Reschedule", "PartnerUpdate", "Hold", "Scheduled", "Notification"}

\* The last command wrote its block.
Wrote == cmds > 0 /\ hist.last \in Variants
LastWritten == hist.log[Len(hist.log)]

\* The history that get_delivery_status returns for a variant; its result
\* has no history for the other three.
DecodedHistory(variant, info) ==
    CASE variant = "Reschedule" -> info.reschedule_history
      [] variant = "PartnerUpdate" -> info.partner_history
      [] OTHER -> <<>>

(* C14: an event of any of the five variants written to an order with an   *)
(* empty note decodes, under its own marker, to a one-element history      *)
(* whose fields are exactly the event's fields.                            *)
C14_RoundTripOnEmptyNote ==
    (Wrote /\ hist.prev.note = <<>>) =>
        DecodedHistory(LastWritten.variant, get_delivery_status(shopOrder))
            = <<LastWritten.fields>>

\* Positions of the log that hold a reschedule.
ReschedulesInLog == {i \in DOMAIN hist.log : hist.log[i].variant = "Reschedule"}

(* C15: appending an event to a note built by earlier appends adds the     *)
(* event's fields as the last element of its variant's decoded history and *)
(* leaves the earlier elements as they were; two reschedules decode to two *)
(* elements carrying their dates in order.                                 *)
C15_AppendExtendsHistory ==
    Wrote =>
        /\ DecodedHistory(LastWritten.variant, get_delivery_status(shopOrder))
              = DecodedHistory(LastWritten.variant, get_delivery_status(hist.prev))
                    \o <<LastWritten.fields>>
        /\ (Len(hist.log) = 2 /\ ReschedulesInLog = {1, 2}) =>
              LET h == get_delivery_status(shopOrder).reschedule_history
              IN  /\ Len(h) = 2
                  /\ \A i \in {1, 2} :
                        /\ K_NewDeliveryDate \in DOMAIN h[i]
                        /\ h[i][K_NewDeliveryDate] = hist.log[i].fields[K_NewDeliveryDate]

LastReschedule == CHOOSE i \in ReschedulesInLog : \A j \in ReschedulesInLog : j <= i

(* C16: after a reschedule to D, every later partner update P leaves the   *)
(* title "P - Rescheduled to D" and the reported delivery date D; applied  *)
(* to a title without "Rescheduled to", it makes the title P.              *)
C16_PartnerUpdateKeepsDate ==
    (Wrote /\ LastWritten.variant = "PartnerUpdate") =>
        LET P == LastWritten.fields[K_NewPartner]
            before == hist.prev.shipping_lines
        IN  /\ ReschedulesInLog # {} =>
                LET D == hist.log[LastReschedule].fields[K_NewDeliveryDate]
                IN  /\ shopOrder.shipping_lines[1] = RescheduleTitle(P, D)
                    /\ get_delivery_status(shopOrder).delivery_date = D
            /\ (before = <<>> \/ ~Contains(before[1], RESCHEDULED_TO)) =>
                   shopOrder.shipping_lines[1] = P

-----------------------------------------------------------------------------
(* Alert engine: the alert map and check_low_stock_alerts *)

MaxThreshold == 1     \* largest threshold an operator sets

AlertSkus == {"A", "B"}
Thresholds == -1..MaxThreshold
Quantities == -1..(MaxThreshold + 1)
\* An optional value: None, or the value x.
None == <<>>
Some(x) == <<x>>

\* Answers of the product query for one SKU: the inventoryQuantity of each
\* variant of the first product found (null for an untracked variant).
Product(inventories) == [kind |-> "product", variants |-> inventories]
ProductAnswers ==
    {Product(<<v>>) : v \in {Some(q) : q \in Quantities} \cup {None}}
        \cup {Product(<<>>), Product(<<Some(0), Some(MaxThreshold + 1)>>)}
QueryAnswers ==
    ProductAnswers \cup {[kind |-> k, variants |-> <<>>] : k \in {"errors", "no_edges", "http_error"}}

\* get_product_by_sku: the product, None, or an HTTPError
ProductOf(answer) ==
    [exc |-> answer.kind = "http_error",
     found |-> answer.kind = "product",
     variants |-> answer.variants]

\* get_variant_inventory on an answer of the product query
InventoryOf(answer) ==
    LET p == ProductOf(answer)
    IN  [exc |-> p.exc,
         inventory |-> IF p.exc \/ ~p.found \/ p.variants = <<>>
                       THEN None
                       ELSE p.variants[1]]

IsLow_Strict(inventory, threshold) == inventory # None /\ inventory[1] < threshold

\* inventory is not None and inventory <= threshold
IsLow(inventory, threshold) == inventory # None /\ inventory[1] <= threshold

LowItem(sku, current, threshold) == [sku |-> sku, current |-> current, threshold |-> threshold]

\* The alert map is a dict: one entry per SKU, in insertion order.
RECURSIVE check_low_stock_alerts(_, _)
check_low_stock_alerts(alertMap, answers) ==
    IF alertMap = <<>> THEN [exc |-> FALSE, items |-> <<>>]
    ELSE LET a == Head(alertMap)
             got == InventoryOf(answers[a.sku])
         IN  IF got.exc THEN [exc |-> TRUE, items |-> <<>>]
             ELSE LET rest == check_low_stock_alerts(Tail(alertMap), answers)
                  IN  IF rest.exc THEN rest
                      ELSE [exc |-> FALSE,
                            items |-> (IF IsLow(got.inventory, a.threshold)
                                       THEN <<LowItem(a.sku, got.inventory[1], a.threshold)>>
                                       ELSE <<>>) \o rest.items]

\* alerts[sku] = threshold
PutAlert(alertMap, sku, threshold) ==
    IF \E i \in DOMAIN alertMap : alertMap[i].sku = sku
    THEN [i \in DOMAIN alertMap |->
             IF alertMap[i].sku = sku THEN [sku |-> sku, threshold |-> threshold]
             ELSE alertMap[i]]
    ELSE Append(alertMap, [sku |-> sku, threshold |-> threshold])

NoAnswers == [s \in AlertSkus |-> [kind |-> "no_edges", variants |-> <<>>]]
Probe(kind, answers, res) == [kind |-> kind, answers |-> answers, exc |-> res.exc, items |-> res.items]

InitAlerts ==
    /\ LoopOff
    /\ ReconOff
    /\ DeliveryOff
    /\ alerts = <<>>
    /\ probe = Probe("none", NoAnswers, [exc |-> FALSE, items |-> <<>>])

alert_command ==
    \E sku \in AlertSkus, threshold \in {Some(t) : t \in Thresholds} \cup {None},
       answer \in QueryAnswers :
        LET p == ProductOf(answer)
            kind == IF threshold = None THEN "not_a_number"
                    ELSE IF p.exc THEN "raised"
                    ELSE IF ~p.found THEN "sku_not_found"
                    ELSE "alert_set"
        IN  /\ alerts' = IF kind = "alert_set" THEN PutAlert(alerts, sku, threshold[1]) ELSE alerts
            /\ probe' = Probe(kind, NoAnswers, [exc |-> kind = "raised", items |-> <<>>])
            /\ UNCHANGED <<reconVars, deliveryVars, loopVars>>

check_alerts_command ==
    \E answers \in [AlertSkus -> QueryAnswers] :
        /\ \A s \in AlertSkus :
              (\A i \in DOMAIN alerts : alerts[i].sku # s) => answers[s] = NoAnswers[s]
        /\ probe' = Probe("checked", answers, check_low_stock_alerts(alerts, answers))
        /\ UNCHANGED <<alerts, reconVars, deliveryVars, loopVars>>

NextAlerts == alert_command \/ check_alerts_command

SpecAlerts == InitAlerts /\ [][NextAlerts]_vars

Checked == probe.kind = "checked"
Returned == Checked /\ ~probe.exc
Reading(sku) == InventoryOf(probe.answers[sku]).inventory
Reported(sku) == {k \in DOMAIN probe.items : probe.items[k].sku = sku}

(* C17: whenever check_low_stock_alerts returns, every SKU of the alert    *)
(* map whose inventory was read has an entry {sku, current, threshold} iff *)
(* current <= threshold, and no SKU outside the alert map is reported.     *)
C17_LowIffAtMostThreshold ==
    Returned =>
        /\ \A i \in DOMAIN alerts :
              LET sku == alerts[i].sku
                  current == Reading(sku)
              IN  current # None =>
                    /\ (Reported(sku) # {}) <=> (current[1] <= alerts[i].threshold)
                    /\ \A k \in Reported(sku) :
                          probe.items[k] = LowItem(sku, current[1], alerts[i].threshold)
                    /\ Cardinality(Reported(sku)) <= 1
        /\ \A k \in DOMAIN probe.items :
              \E i \in DOMAIN alerts : alerts[i].sku = probe.items[k].sku

\* A check that includes a SKU at its threshold and excludes one just above.
C17_Witness ==
    /\ Returned
    /\ \E i, j \in DOMAIN alerts :
          /\ Reading(alerts[i].sku) = Some(alerts[i].threshold)
          /\ Reported(alerts[i].sku) # {}
          /\ Reading(alerts[j].sku) = Some(alerts[j].threshold + 1)
          /\ Reported(alerts[j].sku) = {}

(* C18: a SKU whose inventory cannot be fetched is not in the result, the  *)
(* check raises no error, and the other SKUs of the map are evaluated.     *)
C18_UnreadableSkipped ==
    Checked =>
        \A i \in DOMAIN alerts :
            LET sku == alerts[i].sku
            IN  Reading(sku) = None =>
                  /\ ~probe.exc
                  /\ Reported(sku) = {}
                  /\ \A j \in DOMAIN alerts :
                        IsLow(Reading(alerts[j].sku), alerts[j].threshold)
                            => Reported(alerts[j].sku) # {}

-----------------------------------------------------------------------------
(* Demand predictor: get_sales_data("month") and predict_stock_needs *)

MaxOrders == 2        \* orders the 30-day query returns

MinRecommended == 10

SoldItem(sku, quantity) == [sku |-> sku, quantity |-> quantity]
SoldItems == {SoldItem(sku, q) : sku \in {"A", "B", ""}, q \in {0, 4, 11}}
\* The line items of one order.
SoldOrders ==
    {<<>>} \cup {<<i>> : i \in SoldItems}
        \cup {<<SoldItem("A", 4), SoldItem("A", 11)>>, <<SoldItem("A", 0), SoldItem("B", 4)>>}
Windows == SeqsUpTo(SoldOrders, MaxOrders)

Max(a, b) == IF a >= b THEN a ELSE b

\* products_sold.get(sku, 0)
SoldGet(products_sold, sku) ==
    IF sku \in DOMAIN products_sold THEN products_sold[sku] ELSE 0

\* for item in order["line_items"]: if sku: products_sold[sku] += qty
RECURSIVE SoldInOrder(_, _)
SoldInOrder(items, products_sold) ==
    IF items = <<>> THEN products_sold
    ELSE LET item == Head(items)
         IN  SoldInOrder(Tail(items),
                 IF item.sku # ""
                 THEN [k \in DOMAIN products_sold \cup {item.sku} |->
                          IF k = item.sku
                          THEN SoldGet(products_sold, item.sku) + item.quantity
                          ELSE products_sold[k]]
                 ELSE products_sold)

\* products_sold of get_sales_data over the orders the query returned
RECURSIVE get_sales_data(_, _)
get_sales_data(orders, products_sold) ==
    IF orders = <<>> THEN products_sold
    ELSE get_sales_data(Tail(orders), SoldInOrder(Head(orders), products_sold))

NoSales == [k \in {} |-> 0]

Prediction(kind, current, demand, recommended, needed) ==
    [kind |-> kind, current_stock |-> current, monthly_demand |-> demand,
     recommended_stock |-> recommended, stock_needed |-> needed]

NoSalesData == Prediction("no_sales_data", 0, 0, 0, 0)
Raised == Prediction("raised", 0, 0, 0, 0)

InSold_Positive(sku, products_sold) ==
    sku \in DOMAIN products_sold /\ products_sold[sku] > 0

\* if sku in products_sold
InSold(sku, products_sold) == sku \in DOMAIN products_sold

predict_stock_needs(sku, ordersOk, orders, answer) ==
    IF ~ordersOk THEN Raised
    ELSE LET products_sold == get_sales_data(orders, NoSales)
         IN  IF InSold(sku, products_sold)
             THEN LET monthly_demand == products_sold[sku]
                      got == InventoryOf(answer)
                      current_stock == IF got.inventory = None \/ got.inventory[1] = 0
                                       THEN 0 ELSE got.inventory[1]
                  IN  IF got.exc THEN Raised
                      ELSE Prediction("prediction", current_stock, monthly_demand,
                                      Max(monthly_demand, MinRecommended),
                                      Max(monthly_demand - current_stock, 0))
             ELSE NoSalesData

StockAnswers ==
    {Product(<<v>>) : v \in {Some(-1), Some(0), Some(3), Some(15), None}}
        \cup {[kind |-> k, variants |-> <<>>] : k \in {"no_edges", "http_error"}}

Asked(sku, ordersOk, orders, answer) ==
    [stage |-> "asked", sku |-> sku, ordersOk |-> ordersOk, orders |-> orders,
     answer |-> answer, result |-> NoSalesData]

InitPredict ==
    /\ LoopOff
    /\ ReconOff
    /\ DeliveryOff
    /\ alerts = Off
    /\ \E sku \in {"A", "B"}, ordersOk \in BOOLEAN, orders \in Windows, answer \in StockAnswers :
          /\ (~ordersOk => orders = <<>>)
          /\ probe = Asked(sku, ordersOk, orders, answer)

predict_command ==
    /\ probe.stage = "asked"
    /\ probe' = [probe EXCEPT !.stage = "answered",
                              !.result = predict_stock_needs(probe.sku, probe.ordersOk,
                                                             probe.orders, probe.answer)]
    /\ UNCHANGED <<alerts, reconVars, deliveryVars, loopVars>>

NextPredict == predict_command

SpecPredict == InitPredict /\ [][NextPredict]_vars

Predicted == probe.stage = "answered" /\ probe.result.kind # "raised"

\* Line items of the window that carry the SKU asked about.
RECURSIVE Flatten(_)
Flatten(orders) == IF orders = <<>> THEN <<>> ELSE Head(orders) \o Flatten(Tail(orders))

RECURSIVE SumQty(_, _)
SumQty(items, sku) ==
    IF items = <<>> THEN 0
    ELSE (IF Head(items).sku = sku THEN Head(items).quantity ELSE 0) + SumQty(Tail(items), sku)

SoldSum == SumQty(Flatten(probe.orders), probe.sku)
Appears == \E k \in DOMAIN Flatten(probe.orders) : Flatten(probe.orders)[k].sku = probe.sku
CurrentStock ==
    LET inv == InventoryOf(probe.answer).inventory
    IN  IF inv = None THEN 0 ELSE inv[1]

IsForecast ==
    /\ probe.result.kind = "prediction"
    /\ probe.result.monthly_demand = SoldSum
    /\ probe.result.recommended_stock = Max(SoldSum, 10)
    /\ probe.result.stock_needed = Max(SoldSum - CurrentStock, 0)
    /\ probe.result.current_stock = CurrentStock

(* C19 as stated: the result is "no sales data" exactly when the summed    *)
(* quantity of the SKU in the window is zero, a SKU sold only with         *)
(* quantity 0 included; otherwise it is the forecast.                      *)
C19_NoDataIffZeroSum ==
    Predicted =>
        IF SoldSum = 0 THEN probe.result = NoSalesData ELSE IsForecast

(* C19 amended: the result is "no sales data" exactly when the SKU is on   *)
(* no line item of the window; a SKU that is on a line item, with quantity *)
(* 0 too, gets the forecast with monthly demand = the summed quantity; an  *)
(* HTTP error of the orders query, or of the inventory query of a SKU that *)
(* is on a line item, is raised to the caller.                             *)
C19_NoDataIffAbsent ==
    probe.stage = "answered" =>
        IF ~probe.ordersOk \/ (Appears /\ probe.answer.kind = "http_error")
        THEN probe.result = Raised
        ELSE IF Appears THEN IsForecast
        ELSE probe.result = NoSalesData

\* A forecast for a SKU sold only with quantity 0.
C19_Witness ==
    /\ Predicted
    /\ Appears
    /\ SoldSum = 0
    /\ probe.result.kind = "prediction"
    /\ probe.result.recommended_stock = 10

-----------------------------------------------------------------------------
(* Zone lookup: DELIVERY_ZONES and get_delivery_zone *)

ZoneSpread == 1       \* pincodes tried on each side of every range bound

DELIVERY_ZONES_StandardFirst ==
    << [zone |-> "Standard",
        range |-> << <<110000, 400000>>, <<500000, 700000>>, <<800000, 999999>> >>,
        delivery_time |-> "3-5 days"],
       [zone |-> "Local", range |-> << <<100000, 110000>> >>, delivery_time |-> "1-2 days"],
       [zone |-> "Metro", range |-> << <<400000, 500000>>, <<700000, 800000>> >>,
        delivery_time |-> "2-3 days"] >>

\* The dict in its insertion order.
DELIVERY_ZONES ==
    << [zone |-> "Local", range |-> << <<100000, 110000>> >>, delivery_time |-> "1-2 days"],
       [zone |-> "Metro", range |-> << <<400000, 500000>>, <<700000, 800000>> >>,
        delivery_time |-> "2-3 days"],
       [zone |-> "Standard",
        range |-> << <<110000, 400000>>, <<500000, 700000>>, <<800000, 999999>> >>,
        delivery_time |-> "3-5 days"] >>

DigitVal ==
    ("0" :> 0) @@ ("1" :> 1) @@ ("2" :> 2) @@ ("3" :> 3) @@ ("4" :> 4)
        @@ ("5" :> 5) @@ ("6" :> 6) @@ ("7" :> 7) @@ ("8" :> 8) @@ ("9" :> 9)
IsDigit(c) == c \in DOMAIN DigitVal

\* The digit part of an int() literal: digits, single underscores between them.
RECURSIVE DigitsOk(_)
DigitsOk(s) ==
    /\ s # <<>>
    /\ IsDigit(Head(s))
    /\ \/ Len(s) = 1
       \/ DigitsOk(Tail(s))
       \/ Len(s) >= 3 /\ s[2] = "_" /\ DigitsOk(SubSeq(s, 3, Len(s)))

RECURSIVE DigitsValue(_, _)
DigitsValue(s, acc) ==
    IF s = <<>> THEN acc
    ELSE IF Head(s) = "_" THEN DigitsValue(Tail(s), acc)
    ELSE DigitsValue(Tail(s), 10 * acc + DigitVal[Head(s)])

\* int(text): the value, or ValueError
ParseInt(text) ==
    LET t == Strip(text)
        signed == t # <<>> /\ Head(t) \in {"+", "-"}
        body == IF signed THEN Tail(t) ELSE t
    IN  IF DigitsOk(body)
        THEN [ok |-> TRUE,
              value |-> IF signed /\ Head(t) = "-" THEN 0 - DigitsValue(body, 0)
                        ELSE DigitsValue(body, 0)]
        ELSE [ok |-> FALSE, value |-> 0]

Zone(zone, delivery_time) == [zone |-> zone, delivery_time |-> delivery_time]

\* for start, end in info["range"]: if start <= pincode <= end
RECURSIVE InRanges(_, _)
InRanges(ranges, n) ==
    /\ ranges # <<>>
    /\ \/ Head(ranges)[1] <= n /\ n <= Head(ranges)[2]
       \/ InRanges(Tail(ranges), n)

\* for zone, info in DELIVERY_ZONES.items(): the first zone with a range that matches
RECURSIVE FirstZone(_, _)
FirstZone(zones, n) ==
    IF zones = <<>> THEN Zone("Not Available", "N/A")
    ELSE IF InRanges(Head(zones).range, n)
    THEN Zone(Head(zones).zone, Head(zones).delivery_time)
    ELSE FirstZone(Tail(zones), n)

get_delivery_zone(pincode) ==
    LET parsed == ParseInt(pincode)
    IN  IF parsed.ok THEN FirstZone(DELIVERY_ZONES, parsed.value)
        ELSE Zone("Invalid", "N/A")

\* str(n) for n >= 0
RECURSIVE Digits(_)
Digits(n) ==
    LET last == CHOOSE c \in DOMAIN DigitVal : DigitVal[c] = n % 10
    IN  IF n < 10 THEN <<last>> ELSE Append(Digits(n \div 10), last)

ZoneEdges == {100000, 110000, 400000, 500000, 700000, 800000, 999999}
NearEdges == {e + d : e \in ZoneEdges, d \in (0 - ZoneSpread)..ZoneSpread} \cup {0, 250000, 600000}
NumericPincodes ==
    UNION {{Digits(n), <<"+">> \o Digits(n), <<"-">> \o Digits(n), <<"0">> \o Digits(n)} :
              n \in NearEdges}
OtherPincodes ==
    {<<>>, <<"a", "b", "c">>, <<"1", "1", "O", "0", "0", "0">>, <<"1", "1", "0", "0", "0", "0", "a">>,
     <<"1", ".", "5">>, <<"-">>, <<"1", "_", "1", "0", "0", "0", "0">>, <<"1", "_">>,
     <<"_", "1">>, <<"1", "_", "_", "0">>}
Pincodes == NumericPincodes \cup OtherPincodes

InitZone ==
    /\ LoopOff
    /\ ReconOff
    /\ DeliveryOff
    /\ alerts = Off
    /\ \E pincode \in Pincodes :
          probe = [stage |-> "asked", pincode |-> pincode, result |-> Zone("", "")]

zone_command ==
    /\ probe.stage = "asked"
    /\ probe' = [probe EXCEPT !.stage = "answered", !.result = get_delivery_zone(probe.pincode)]
    /\ UNCHANGED <<alerts, reconVars, deliveryVars, loopVars>>

NextZone == zone_command

SpecZone == InitZone /\ [][NextZone]_vars

Between(lo, n, hi) == lo <= n /\ n <= hi

\* The zone the range table gives a number, zones taken in the order
\* Local, Metro, Standard.
ZoneOfNumber(n) ==
    IF Between(100000, n, 110000) THEN "Local"
    ELSE IF Between(400000, n, 500000) \/ Between(700000, n, 800000) THEN "Metro"
    ELSE IF Between(110000, n, 400000) \/ Between(500000, n, 700000)
            \/ Between(800000, n, 999999) THEN "Standard"
    ELSE "Not Available"

(* C20: a pincode that int() accepts gets the first zone, in the order     *)
(* Local, Metro, Standard, whose inclusive range contains it, and "Not     *)
(* Available" when no range does; any other pincode gets "Invalid"; 110000 *)
(* is Local and 999999 is Standard.                                        *)
C20_FirstZoneInOrder ==
    probe.stage = "answered" =>
        LET parsed == ParseInt(probe.pincode)
        IN  /\ probe.result.zone \in {"Local", "Metro", "Standard", "Not Available", "Invalid"}
            /\ parsed.ok => probe.result.zone = ZoneOfNumber(parsed.value)
            /\ ~parsed.ok => probe.result.zone = "Invalid"
            /\ probe.pincode = <<"1", "1", "0", "0", "0", "0">> => probe.result.zone = "Local"
            /\ probe.pincode = <<"9", "9", "9", "9", "9", "9">> => probe.result.zone = "Standard"
            /\ probe.pincode = <<"a", "b", "c">> => probe.result.zone = "Invalid"

\* The pincode on the bound shared by Local and Standard, answered Local.
C20_Witness ==
    /\ probe.stage = "answered"
    /\ probe.pincode = <<"1", "1", "0", "0", "0", "0">>
    /\ probe.result = Zone("Local", "1-2 days")

-----------------------------------------------------------------------------
(* Reconciliation pass: pause, ledger round trip, out-of-stock line *)

\* The new record handled next after the record of row i.
NextStarted(i) == {j \in StartedRows : j > i /\ \A k \in StartedRows : k > i => j <= k}

FirstEventOf(j) == {k \in DOMAIN events : events[k].row = j /\
                       \A m \in DOMAIN events : events[m].row = j => k <= m}

(* C25: between the handling of two consecutive new records of a pass the  *)
(* pause occurs, whatever the outcome of the first of the two.             *)
C25_PauseBetweenRecords ==
    PassEnded =>
        \A i \in StartedRows : \A j \in NextStarted(i) :
            /\ EventsOf(i, "sleep") # {}
            /\ \A s \in EventsOf(i, "sleep") : \A k \in FirstEventOf(j) : s < k

(* C26: a tracking ID that is a line of the ledger file when a pass starts *)
(* is recognised by the pass as processed: no record carrying it is        *)
(* handled, IDs with leading or trailing whitespace included.              *)
C26_LedgerRoundTrip ==
    Fetched =>
        \A i \in DOMAIN sheet :
            (sheet[i].tid # <<>> /\ sheet[i].tid \in Range(prevLedger))
                => (i \notin NewRows /\ sheet[i].tid \notin Range(new_ids))

\* The set-quantity call of row i for a variant was made and answered
\* without errors.
QuantitySet(i, variant) ==
    /\ \E k \in EventsOf(i, "setqty") : events[k].variant = variant
    /\ \A k \in EventsOf(i, "userErrors") : events[k].variant # variant

(* C29: the line "Marked as out of stock" is recorded for a line item only *)
(* if the inventory item and location were found and the set-quantity call *)
(* returned without errors.                                                *)
C29_MarkedOnlyIfSet ==
    \A k \in DOMAIN actions :
        actions[k].kind = "out_of_stock" =>
            \E n \in DOMAIN ItemsOfRow(actions[k].row) :
                /\ ItemsOfRow(actions[k].row)[n].sku = actions[k].sku
                /\ QuantitySet(actions[k].row, ItemsOfRow(actions[k].row)[n].variant_id)

-----------------------------------------------------------------------------
(* Delivery history: blocks of other variants *)

(* C27: appending an event of one variant leaves the decoded history of    *)
(* every other variant as it was, the keys and values of the last          *)
(* reschedule entry included.                                              *)
C27_OtherHistoriesUnchanged ==
    Wrote =>
        \A variant \in Variants \ {LastWritten.variant} :
            DecodedHistory(variant, get_delivery_status(shopOrder))
                = DecodedHistory(variant, get_delivery_status(hist.prev))

-----------------------------------------------------------------------------
(* A reconciliation pass on an order that carries a delivery history *)

\* The order after the PUT of set_shipping_carrier:
\* "shipping_lines": [{"title": carrier_name}], the note is not sent.
PutShippingCarrier(o) == DeliveryOrder(<<DEFAULT_PARTNER>>, o.note)

\* Feed rows for order 1, whose delivery history shopOrder holds.
OrderRows == {Row(TidB, <<"#", "1">>, <<"O", "K">>), Row(TidA, <<"#", "1">>, PACKED)}

\* The pass made a carrier-update call and the store accepted it.
CarrierWasSet(st, up) ==
    /\ up # "carrier_http"
    /\ \E k \in DOMAIN st.events : st.events[k].op = "carrier"

\* One pass over a feed of one new record for the order, as the order sees it.
checktracking_on_order ==
    /\ cmds < MaxCmds
    /\ cmds' = cmds + 1
    /\ \E r \in OrderRows :
         \E ups \in Upstreams(<<r>>, {}) :
           LET st == TryBlock(<<>>, FetchFeed(<<r>>, TRUE), ups)
           IN  /\ shopOrder' = IF CarrierWasSet(st, ups[1])
                               THEN PutShippingCarrier(shopOrder)
                               ELSE shopOrder
               /\ hist' = [hist EXCEPT !.prev = shopOrder,
                                       !.last = IF IsPacked(r.status) THEN "pass_packed"
                                                ELSE IF st.exc = "" THEN "pass_stock"
                                                ELSE "pass_aborted"]
    /\ UNCHANGED <<reconVars, toolVars, loopVars>>

NextCarrier == reschedule_command \/ checktracking_on_order

SpecCarrier == InitDelivery /\ [][NextCarrier]_vars

(* C28: once an order was rescheduled to D, a pass that handles a          *)
(* non-PACKED record for it leaves "Rescheduled to D" in the shipping-line *)
(* title, and get_delivery_status still reports D.                         *)
C28_PassKeepsReschedule ==
    (cmds > 0 /\ hist.last = "pass_stock" /\ ReschedulesInLog # {}
        /\ get_delivery_status(hist.prev).delivery_date
              = hist.log[LastReschedule].fields[K_NewDeliveryDate]) =>
        LET D == hist.log[LastReschedule].fields[K_NewDeliveryDate]
        IN  /\ shopOrder.shipping_lines # <<>>
            /\ Contains(shopOrder.shipping_lines[1], RESCHEDULED_TO \o <<" ">> \o D)
            /\ get_delivery_status(shopOrder).delivery_date = D

----------------------------------------------------------------------------
(* Support tickets and the event loop *)

\* Handler invocations per behaviour.
MaxTasks == 2

SUPPORT_TICKETS_FILE_Empty == <<>>
TICKET_STATUSES == {"Open", "In Progress", "Resolved", "Closed"}

\* f"{n:04d}": the decimal digits of n, filled with zeros on the left up to
\* four characters; longer numbers are not cut.
RECURSIVE ZeroPad(_, _)
ZeroPad(digits, width) ==
    IF Len(digits) >= width THEN digits ELSE ZeroPad(<<"0">> \o digits, width)

\* The number of the store's current size, taken as the new ticket's number.
TicketNumber_Len(store) == Len(store)

\* len(tickets) + 1
TicketNumber(store) == Len(store) + 1

\* f"TICKET-{len(tickets) + 1:04d}"
TicketId(n) == <<"TICKET-">> \o ZeroPad(Digits(n), 4)

Ticket(id, order_id, description, status, created_by) ==
    [id |-> id, order_id |-> order_id, description |-> description,
     status |-> status, created_by |-> created_by]

HasTicket(store, id) == \E i \in DOMAIN store : store[i].id = id

\* tickets[ticket_id] = ticket: a dict assignment replaces the value of a key
\* that is present and adds the key at the end otherwise.
PutTicket(store, ticket) ==
    IF HasTicket(store, ticket.id)
    THEN [i \in DOMAIN store |-> IF store[i].id = ticket.id THEN ticket ELSE store[i]]
    ELSE Append(store, ticket)

\* create_support_ticket, from the loaded store on: the new ticket and the
\* store that is saved.
create_support_ticket(loaded, order_id, description, user_id) ==
    LET ticket == Ticket(TicketId(TicketNumber(loaded)), order_id, description, "Open", user_id)
    IN  [ticket |-> ticket, store |-> PutTicket(loaded, ticket)]

\* update_ticket_status: any status is stored as given; an absent id saves
\* nothing and returns False.
update_ticket_status(store, ticket_id, status) ==
    IF HasTicket(store, ticket_id)
    THEN [ok |-> TRUE,
          store |-> [i \in DOMAIN store |->
                        IF store[i].id = ticket_id
                        THEN [store[i] EXCEPT !.status = status] ELSE store[i]]]
    ELSE [ok |-> FALSE, store |-> store]

\* Every position of a handler is taken as a point where the loop may switch.
Suspended_Anywhere(at) == TRUE

\* The pass handler as if it awaited something after reading the ledger.
Suspended_AfterRead(at) == at \in {"idle", "arrived", "greeting", "read", "replying", "done"}

\* The positions where a handler has given the control back to the event
\* loop: not dispatched yet, awaiting a reply (the greeting of the pass
\* handler, the final reply of any handler), returned.
Suspended(at) == at \in {"idle", "arrived", "greeting", "replying", "done"}

Slots == 1..MaxTasks
CanRun(t) == \A u \in Slots \ {t} : Suspended(tasks[u].at)

TicketCommands == {"support", "issue"}
Users == {101, 102}
Descriptions == {<<"torn">>}
OrderIds == {<<"1001">>}
UpdateIds == {TicketId(1), TicketId(9)}
UpdateStatuses == {"Resolved", "Bogus"}

IdleTask ==
    [cmd |-> "none", at |-> "idle", args_ok |-> FALSE, order_id |-> <<>>,
     description |-> <<>>, user |-> 0, loaded |-> <<>>, ticket |-> <<>>]

NoCall == [called |-> FALSE, ticket_id |-> <<>>, status |-> "", ok |-> FALSE, before |-> <<>>,
           after |-> <<>>]

InitTickets ==
    /\ ReconOff
    /\ DeliveryOff
    /\ alerts = Off
    /\ probe = [created |-> <<>>, last |-> NoCall]
    /\ tickets = SUPPORT_TICKETS_FILE_Empty
    /\ tasks = [t \in Slots |-> IdleTask]

\* An update with /support or /issue reaches the application; its handler
\* is scheduled. /issue passes "N/A" as the order id.
Dispatch ==
    \E t \in Slots, cmd \in TicketCommands, ok \in BOOLEAN, user \in Users,
       o \in OrderIds, d \in Descriptions :
        /\ tasks[t].at = "idle"
        /\ \A u \in Slots : u < t => tasks[u].at # "idle"
        /\ tasks' = [tasks EXCEPT ![t] =
                        [IdleTask EXCEPT !.cmd = cmd, !.at = "arrived", !.args_ok = ok,
                                         !.order_id = IF cmd = "support" THEN o ELSE <<"N/A">>,
                                         !.description = d, !.user = user]]
        /\ UNCHANGED <<tickets, reconVars, deliveryVars, toolVars>>

\* The handler starts: too few arguments go to the usage reply, otherwise
\* create_support_ticket loads the store.
LoadTickets ==
    \E t \in Slots :
        /\ tasks[t].at = "arrived"
        /\ CanRun(t)
        /\ tasks' = [tasks EXCEPT ![t] =
                        IF tasks[t].args_ok
                        THEN [@ EXCEPT !.at = "loaded", !.loaded = tickets]
                        ELSE [@ EXCEPT !.at = "replying"]]
        /\ UNCHANGED <<tickets, reconVars, deliveryVars, toolVars>>

\* create_support_ticket numbers the ticket from the store it loaded, adds
\* it and saves that store; the handler then awaits its reply.
SaveTicket ==
    \E t \in Slots :
        /\ tasks[t].at = "loaded"
        /\ CanRun(t)
        /\ LET made == create_support_ticket(tasks[t].loaded, tasks[t].order_id,
                                             tasks[t].description, tasks[t].user)
           IN  /\ tickets' = made.store
               /\ tasks' = [tasks EXCEPT ![t] = [@ EXCEPT !.at = "replying", !.loaded = <<>>,
                                                          !.ticket = <<made.ticket>>]]
               /\ probe' = [probe EXCEPT !.created = Append(@, made.ticket)]
        /\ UNCHANGED <<alerts, reconVars, deliveryVars>>

\* The awaited reply is sent and the handler returns: its locals are gone.
ReplyTicket ==
    \E t \in Slots :
        /\ tasks[t].at = "replying"
        /\ CanRun(t)
        /\ tasks' = [tasks EXCEPT ![t] = [IdleTask EXCEPT !.at = "done"]]
        /\ UNCHANGED <<tickets, reconVars, deliveryVars, toolVars>>

\* A call of update_ticket_status, which has no suspension point, while
\* every handler is suspended.
UpdateStatus ==
    \E id \in UpdateIds, status \in UpdateStatuses :
        /\ \A u \in Slots : Suspended(tasks[u].at)
        /\ LET res == update_ticket_status(tickets, id, status)
           IN  /\ tickets' = res.store
               /\ probe' = [probe EXCEPT !.last =
                               [called |-> TRUE, ticket_id |-> id, status |-> status,
                                ok |-> res.ok, before |-> tickets, after |-> res.store]]
        /\ UNCHANGED <<alerts, tasks, reconVars, deliveryVars>>

NextTickets == Dispatch \/ LoadTickets \/ SaveTicket \/ ReplyTicket \/ UpdateStatus

SpecTickets == InitTickets /\ [][NextTickets]_vars

\* "TICKET-" followed by n as four decimal digits, n < 10000
ExpectedId(n) ==
    <<"TICKET-">> \o [i \in 1..4 |->
        CHOOSE c \in DOMAIN DigitVal : DigitVal[c] = (n \div (10 ^ (4 - i))) % 10]

SameButStatus(a, b) == [a EXCEPT !.status = "Open"] = [b EXCEPT !.status = "Open"]

\* C21: the ids in the ticket store are pairwise distinct, the n-th created
\* ticket has the id TICKET- followed by n zero-padded to four digits, and
\* every created ticket is still in the store under its id with its order,
\* description and creator: no creation has overwritten an earlier ticket.
C21_TicketIds ==
    /\ \A i, j \in DOMAIN tickets : tickets[i].id = tickets[j].id => i = j
    /\ Len(tickets) = Len(probe.created)
    /\ \A n \in DOMAIN probe.created :
          /\ probe.created[n].id = ExpectedId(n)
          /\ SameButStatus(tickets[n], probe.created[n])

C21_Witness ==
    /\ Len(tickets) >= 2
    /\ probe.last.called /\ probe.last.ok
    /\ \E i \in DOMAIN tickets : tickets[i].status # "Open"

StatusesDefined == \A i \in DOMAIN tickets : tickets[i].status \in TICKET_STATUSES
UnknownIdRefused ==
    (probe.last.called /\ ~HasTicket(probe.last.before, probe.last.ticket_id))
        => (~probe.last.ok /\ probe.last.after = probe.last.before)

\* C22: every stored ticket has one of the four defined statuses, and a call
\* of update_ticket_status with an id that is not in the store returns false
\* and leaves the store as it was.
C22_StatusDefined == StatusesDefined /\ UnknownIdRefused

Created(t) == tasks[t].ticket # <<>>

\* C30: two ticket-creating handlers, however the event loop interleaves
\* them, never hold the same ticket id, and the ticket of each is in the
\* store under its id with its own order, description and creator.
C30_InterleavedCreation ==
    \A t, u \in Slots :
        (Created(t) /\ Created(u)) =>
            /\ (t # u => tasks[t].ticket[1].id # tasks[u].ticket[1].id)
            /\ \E i \in DOMAIN tickets : SameButStatus(tickets[i], tasks[t].ticket[1])

\* Two handlers have created their tickets and both still await their reply.
C30_Witness ==
    \E t, u \in Slots :
        /\ t # u
        /\ Created(t) /\ Created(u)
        /\ tasks[t].at = "replying" /\ tasks[u].at = "replying"
        /\ tasks[t].cmd = "support" /\ tasks[u].cmd = "issue"

----------------------------------------------------------------------------
(* Reconciliation passes in the event loop *)

IdlePass ==
    [cmd |-> "none", at |-> "idle", processed |-> {}, read |-> <<>>,
     new_ids |-> <<>>, exc |-> "", before |-> <<>>]

\* The published sheet while the passes run: one row of any kind, or a
\* plain new ID followed by one that carries whitespace.
PassFeeds ==
    SeqsUpTo(Rows, 1)
        \cup {<<Row(TidB, <<"#", "1">>, <<"O", "K">>),
                Row(TidSpA, <<"1">>, <<"p", "a", "c", "k", "e", "d", " ">>)>>}

InitPasses ==
    /\ sheet \in PassFeeds
    /\ ledgerFile \in InitLedgers
    /\ pc = Off
    /\ outcome = Off
    /\ new_ids = <<>>
    /\ actions = <<>>
    /\ reply = ReplyNone
    /\ events = <<>>
    /\ prevLedger = <<>>
    /\ fulfilled = {}
    /\ sheetRuns = 0
    /\ passes = 0
    /\ DeliveryOff
    /\ ToolsOff
    /\ tickets = SUPPORT_TICKETS_FILE_Empty
    /\ tasks = [t \in Slots |-> IdlePass]

\* The try block from the requests.get on, with the set that
\* get_processed_ids returned before.
TryBlockFrom(processed, fetch, ups) ==
    IF fetch.exc # "" THEN Raise(EmptyPass, fetch.exc)
    ELSE Loop(fetch.rows, 1, processed, ups, EmptyPass)

passUnchanged == <<pc, outcome, new_ids, actions, reply, events, prevLedger, fulfilled,
                   sheetRuns, passes, sheet, tickets, deliveryVars, toolVars>>

\* An update with /checktracking reaches the application.
DispatchPass ==
    \E t \in Slots :
        /\ tasks[t].at = "idle"
        /\ \A u \in Slots : u < t => tasks[u].at # "idle"
        /\ tasks' = [tasks EXCEPT ![t] = [IdlePass EXCEPT !.cmd = "checktracking",
                                                          !.at = "arrived"]]
        /\ UNCHANGED <<ledgerFile, passUnchanged>>

\* The handler starts and awaits its greeting.
Greet ==
    \E t \in Slots :
        /\ tasks[t].at = "arrived"
        /\ CanRun(t)
        /\ tasks' = [tasks EXCEPT ![t] = [@ EXCEPT !.at = "greeting"]]
        /\ UNCHANGED <<ledgerFile, passUnchanged>>

\* processed = get_processed_ids()
ReadLedger ==
    \E t \in Slots :
        /\ tasks[t].at = "greeting"
        /\ CanRun(t)
        /\ tasks' = [tasks EXCEPT ![t] = [@ EXCEPT !.at = "read",
                                                  !.processed = get_processed_ids(ledgerFile),
                                                  !.read = ledgerFile]]
        /\ UNCHANGED <<ledgerFile, passUnchanged>>

\* The fetch, the loop over the rows and save_processed_ids, which appends
\* to the file as it is now; the handler then awaits its final reply.
RunPass ==
    \E t \in Slots, ok \in BOOLEAN :
        /\ tasks[t].at = "read"
        /\ CanRun(t)
        /\ LET fetch == FetchFeed(sheet, ok)
           IN  \E ups \in Upstreams(fetch.rows, tasks[t].processed) :
                 LET st == TryBlockFrom(tasks[t].processed, fetch, ups)
                 IN  /\ ledgerFile' = Commit(ledgerFile, st)
                     /\ tasks' = [tasks EXCEPT ![t] =
                                     [@ EXCEPT !.at = "replying", !.new_ids = st.new_ids,
                                               !.exc = st.exc, !.before = ledgerFile]]
        /\ UNCHANGED passUnchanged

\* The final reply is sent and the handler returns.
FinishPass ==
    \E t \in Slots :
        /\ tasks[t].at = "replying"
        /\ CanRun(t)
        /\ tasks' = [tasks EXCEPT ![t] = [@ EXCEPT !.at = "done"]]
        /\ UNCHANGED <<ledgerFile, passUnchanged>>

NextPasses == DispatchPass \/ Greet \/ ReadLedger \/ RunPass \/ FinishPass

\* Every dispatched handler is run to its end by the event loop.
SpecPasses == InitPasses /\ [][NextPasses]_vars /\ WF_vars(NextPasses)

InFlight(t) == tasks[t].at \in {"arrived", "greeting", "read", "replying"}
HasRead(t) == tasks[t].at = "read"
Ended(t) == tasks[t].at \in {"replying", "done"}
Committed(t) == Ended(t) /\ tasks[t].exc = ""
TwoInFlight == \E t, u \in Slots : t # u /\ InFlight(t) /\ InFlight(u)
BothRead == \E t, u \in Slots : t # u /\ HasRead(t) /\ HasRead(u)
Plain(tid) == Strip(tid) = tid

----------------------------------------------------------------------------
(* Argument validation of the operator commands *)

\* Argument texts, one character per element.
NAN == <<"n", "a", "n">>
INF == <<"i", "n", "f">>
INFINITY == <<"i", "n", "f", "i", "n", "i", "t", "y">>
N5 == <<"5">>
NMINUS1 == <<"-", "1">>
NABC == <<"a", "b", "c">>
N150 == <<"1", "5", "0">>
N2P5 == <<"2", ".", "5">>
D_ISO == <<"2", "0", "2", "5", "-", "0", "1", "-", "1", "5">>
D_TOMORROW == <<"t", "o", "m", "o", "r", "r", "o", "w">>
D_ISO_X == <<"2", "0", "2", "5", "-", "0", "1", "-", "1", "5", "x">>
T_1030 == <<"1", "0", ":", "3", "0">>
T_NOON == <<"n", "o", "o", "n">>

\* The decimal part of a float() literal: digits, a point, digits, with at
\* least one digit on one side of the point.
IntPart(s) == IF Find(s, <<".">>) = 0 THEN s ELSE SubSeq(s, 1, Find(s, <<".">>) - 1)
FracPart(s) == IF Find(s, <<".">>) = 0 THEN <<>> ELSE SubSeq(s, Find(s, <<".">>) + 1, Len(s))
AllDigits(s) == \A i \in DOMAIN s : IsDigit(s[i])
DecimalOk(s) ==
    /\ AllDigits(IntPart(s))
    /\ AllDigits(FracPart(s))
    /\ IntPart(s) \o FracPart(s) # <<>>

Float(kind, neg, whole, frac) == [ok |-> TRUE, kind |-> kind, neg |-> neg, whole |-> whole, frac |-> frac]
ValueError == [ok |-> FALSE, kind |-> "", neg |-> FALSE, whole |-> 0, frac |-> <<>>]

\* float(text) for literals without an exponent, in lower case: the sign,
\* then "nan", "inf", "infinity" or a decimal; otherwise ValueError.
ParseFloat(text) ==
    LET t == Strip(text)
        signed == t # <<>> /\ Head(t) \in {"+", "-"}
        neg == signed /\ Head(t) = "-"
        body == IF signed THEN Tail(t) ELSE t
    IN  IF body = NAN THEN Float("nan", neg, 0, <<>>)
        ELSE IF body \in {INF, INFINITY} THEN Float("inf", neg, 0, <<>>)
        ELSE IF DecimalOk(body)
        THEN Float("num", neg, DigitsValue(IntPart(body), 0), FracPart(body))
        ELSE ValueError

NonZero(f) == f.whole # 0 \/ \E i \in DOMAIN f.frac : f.frac[i] # "0"

\* percentage < 0; every comparison with nan is false
BelowZero(f) ==
    \/ f.kind = "inf" /\ f.neg
    \/ f.kind = "num" /\ f.neg /\ NonZero(f)

\* percentage > 100
Above100(f) ==
    \/ f.kind = "inf" /\ ~f.neg
    \/ f.kind = "num" /\ ~f.neg
          /\ (f.whole > 100 \/ (f.whole = 100 /\ \E i \in DOMAIN f.frac : f.frac[i] # "0"))

\* re.match: the pattern has to match at the start of the text; what follows
\* the match is not looked at. "d" stands for \d.
MatchPrefix(pattern, text) ==
    /\ Len(text) >= Len(pattern)
    /\ \A i \in DOMAIN pattern :
          IF pattern[i] = "d" THEN IsDigit(text[i]) ELSE text[i] = pattern[i]

DatePattern == <<"d", "d", "d", "d", "-", "d", "d", "-", "d", "d">>
TimePattern == <<"d", "d", ":", "d", "d">>

NumberArgs == {N5, NMINUS1, NABC, N150, NAN, N2P5}
DateArgs == {D_ISO, D_TOMORROW, D_ISO_X}
TimeArgs == {T_1030, T_NOON}
OrderArgs == {<<"#", "1">>}
SkuArgs == {<<"A">>}
StoreAnswers == {"ok", "not_found", "lookup_failed", "write_failed"}

\* What one handler invocation did: its reply, the calls it made to external
\* services in order, and the stores after it.
Handled(replyKind, calls, alertMap, o) ==
    [reply |-> replyKind, calls |-> calls, alerts |-> alertMap, order |-> o]

\* The lookup of a command and what follows it, common to the handlers: a
\* failed request raises, an unknown name gives "not found", a failed write
\* raises after the request has been sent.
AfterLookup(lookupOp, writeOp, answer, alertMap, o, written) ==
    IF answer = "lookup_failed" THEN Handled("raised", <<lookupOp>>, alertMap, o)
    ELSE IF answer = "not_found" THEN Handled("not_found", <<lookupOp>>, alertMap, o)
    ELSE IF answer = "write_failed" THEN Handled("failed", <<lookupOp, writeOp>>, alertMap, o)
    ELSE written

handle_alert(args, answer, alertMap, o) ==
    IF Len(args) # 2 THEN Handled("usage", <<>>, alertMap, o)
    ELSE IF ~ParseInt(args[2]).ok THEN Handled("not_a_number", <<>>, alertMap, o)
    ELSE IF answer = "lookup_failed" THEN Handled("raised", <<"POST graphql">>, alertMap, o)
    ELSE IF answer = "not_found" THEN Handled("not_found", <<"POST graphql">>, alertMap, o)
    ELSE Handled("done", <<"POST graphql">>,
                 PutAlert(alertMap, args[1], ParseInt(args[2]).value), o)

handle_refund(args, answer, alertMap, o) ==
    IF Len(args) < 2 THEN Handled("usage", <<>>, alertMap, o)
    ELSE IF ~ParseFloat(args[2]).ok THEN Handled("not_a_number", <<>>, alertMap, o)
    ELSE AfterLookup("GET orders", "POST refunds", answer, alertMap, o,
                     Handled("done", <<"GET orders", "POST refunds">>, alertMap, o))

handle_discount(args, answer, alertMap, o) ==
    IF Len(args) < 2 THEN Handled("usage", <<>>, alertMap, o)
    ELSE IF ~ParseFloat(args[2]).ok THEN Handled("not_a_number", <<>>, alertMap, o)
    ELSE IF BelowZero(ParseFloat(args[2])) \/ Above100(ParseFloat(args[2]))
    THEN Handled("out_of_range", <<>>, alertMap, o)
    ELSE AfterLookup("GET orders", "PUT order", answer, alertMap, o,
                     Handled("done", <<"GET orders", "PUT order">>, alertMap, o))

handle_schedule(args, answer, alertMap, o) ==
    IF Len(args) < 3 THEN Handled("usage", <<>>, alertMap, o)
    ELSE IF answer = "lookup_failed" THEN Handled("raised", <<"GET orders">>, alertMap, o)
    ELSE IF answer = "not_found" THEN Handled("not_found", <<"GET orders">>, alertMap, o)
    ELSE IF ~MatchPrefix(DatePattern, args[2]) THEN Handled("invalid_date", <<"GET orders">>, alertMap, o)
    ELSE IF ~MatchPrefix(TimePattern, args[3]) THEN Handled("invalid_time", <<"GET orders">>, alertMap, o)
    ELSE IF answer = "write_failed" THEN Handled("failed", <<"GET orders", "PUT order">>, alertMap, o)
    ELSE Handled("done", <<"GET orders", "PUT order">>, alertMap,
                 DeliveryOrder(o.shipping_lines,
                               AppendNote(o.note, schedule_note(args[2], args[3]))))

\* context.args as sent, or with the last argument left out
Sent(args) == {args, SubSeq(args, 1, Len(args) - 1)}

InitArgs ==
    /\ LoopOff
    /\ ReconOff
    /\ hist = Off
    /\ cmds = 0
    /\ shopOrder = DeliveryOrder(<<>>, <<>>)
    /\ alerts = <<>>
    /\ probe = [cmd |-> "none", args |-> <<>>, reply |-> "none", calls |-> <<>>]

Handle(cmd, args, res) ==
    /\ cmds < MaxCmds
    /\ cmds' = cmds + 1
    /\ probe' = [cmd |-> cmd, args |-> args, reply |-> res.reply, calls |-> res.calls]
    /\ alerts' = res.alerts
    /\ shopOrder' = res.order
    /\ UNCHANGED <<hist, reconVars, loopVars>>

alert_args ==
    \E sku \in SkuArgs, n \in NumberArgs, answer \in StoreAnswers \ {"write_failed"} :
        \E args \in Sent(<<sku, n>>) :
            Handle("alert", args, handle_alert(args, answer, alerts, shopOrder))

refund_command ==
    \E name \in OrderArgs, n \in NumberArgs, answer \in StoreAnswers :
        \E args \in Sent(<<name, n>>) :
            Handle("refund", args, handle_refund(args, answer, alerts, shopOrder))

discount_command ==
    \E name \in OrderArgs, n \in NumberArgs, answer \in StoreAnswers :
        \E args \in Sent(<<name, n>>) :
            Handle("discount", args, handle_discount(args, answer, alerts, shopOrder))

schedule_args ==
    \E name \in OrderArgs, d \in DateArgs, t \in TimeArgs, answer \in StoreAnswers :
        \E args \in Sent(<<name, d, t>>) :
            Handle("schedule", args, handle_schedule(args, answer, alerts, shopOrder))

NextArgs == alert_args \/ refund_command \/ discount_command \/ schedule_args

SpecArgs == InitArgs /\ [][NextArgs]_vars

\* A decimal number: an optional sign, digits, optionally a point and digits.
IsNumber(text) ==
    LET body == IF text # <<>> /\ Head(text) \in {"+", "-"} THEN Tail(text) ELSE text
    IN  body # <<>> /\ IsDigit(body[1]) /\ IsDigit(body[Len(body)])
        /\ (\A i \in DOMAIN body : (IsDigit(body[i]) \/ body[i] = "."))
        /\ Cardinality({i \in DOMAIN body : body[i] = "."}) <= 1
IsInteger(text) == IsNumber(text) /\ \A i \in DOMAIN text : text[i] # "."
IsPercentage(text) ==
    /\ IsNumber(text)
    /\ Head(text) # "-"
    /\ LET f == ParseFloat(text) IN ~Above100(f)
Exactly(pattern, text) == Len(text) = Len(pattern) /\ MatchPrefix(pattern, text)

Malformed(cmd, args) ==
    CASE cmd = "alert" -> Len(args) # 2 \/ ~IsInteger(args[2])
      [] cmd = "refund" -> Len(args) < 2 \/ ~IsNumber(args[2])
      [] cmd = "discount" -> Len(args) < 2 \/ ~IsPercentage(args[2])
      [] cmd = "schedule" ->
            Len(args) < 3 \/ ~Exactly(DatePattern, args[2]) \/ ~Exactly(TimePattern, args[3])
      [] OTHER -> FALSE

\* C23: a command with malformed arguments (wrong count, a threshold that is
\* no integer, an amount that is no number, a percentage that is no number
\* between 0 and 100, a date or time not of the form YYYY-MM-DD / HH:MM)
\* makes no call to the Order Store or another external service and leaves
\* the alert store and the order as they were.
C23_RejectedBeforeCalls ==
    [][Malformed(probe'.cmd, probe'.args)
          => (probe'.calls = <<>> /\ alerts' = alerts /\ shopOrder' = shopOrder)]_vars

====
